---- MODULE Spec2Model ----
(***************************************************************************)
(* A model of the unifi-network-go client library: the transport adapter   *)
(* (Client.do), the resource operations built on it, the outcome of one    *)
(* HTTP round trip, and the construction of a client (NewClient).          *)
(*                                                                         *)
(* Strings that take part in path building are sequences of tokens: a      *)
(* token is either one of the characters the code treats specially ("/",   *)
(* "?", "&", "=", ".", "..") or a run of ordinary characters ("default").  *)
(* The empty string is <<>>.                                               *)
(***************************************************************************)
EXTENDS Integers, Sequences, FiniteSets, TLC

VARIABLES
  pc,      \* "idle", "inflight" (blocked in httpClient.Do) or "done"
  call,    \* the operation called and its arguments
  doArgs,  \* the arguments the operation passed to Client.do
  sent,    \* the HTTP requests handed to the transport during this call
  resp,    \* what the HTTP client handed back
  doRet,   \* what Client.do returned: its error and the output target
  ret,     \* what the operation returned: its result and its error
  ctxDone, \* the caller's context was cancelled during the round trip
  newPc,   \* NewClient: "idle", "options" (in the option loop) or "done"
  newArgs, \* NewClient: the base URL and the options it was called with
  client,  \* NewClient: the Client under construction
  applied, \* NewClient: how many options have been applied
  newRet,  \* NewClient: what it returned, or that it panicked
  shared,  \* concurrent calls: the fields of the one Client all callers use
  callers, \* concurrent calls: each caller's position in do and its locals
  codecPc, \* Device codec: "idle", "encoded" or "decoded"
  original,\* Device codec: the Device the mock server encoded, if it did
  wire,    \* Device codec: the JSON object on the wire
  decoded  \* Device codec: what json.Unmarshal made of it

callVars == <<pc, call, doArgs, sent, resp, doRet, ret, ctxDone>>

newVars == <<newPc, newArgs, client, applied, newRet>>

concVars == <<shared, callers>>

codecVars == <<codecPc, original, wire, decoded>>

vars == <<pc, call, doArgs, sent, resp, doRet, ret, ctxDone,
          newPc, newArgs, client, applied, newRet,
          shared, callers, codecPc, original, wire, decoded>>

(***************************************************************************)
(* Bounds of the model.                                                    *)
(***************************************************************************)
\* the longest data array a response body carries
MaxData == 2
\* the most options one call of NewClient is given
MaxOptions == 3

(***************************************************************************)
(* Program constants.                                                      *)
(***************************************************************************)
maxLimit == 200
MinCount == 1
MaxCount == 10000
MinTimeLimit == 1
MaxTimeLimit == 1000000
MinDataUsage == 1
MaxDataUsage == 1046576
MinRate == 2
MaxRate == 100000
ErrorStatusFloor == 400

(***************************************************************************)
(* Token strings.                                                          *)
(***************************************************************************)
EmptyStr == <<>>

RECURSIVE SplitOn(_, _)
\* strings.Split(s, sep) for a one-token separator
SplitOn(s, sep) ==
  IF s = <<>> THEN << <<>> >>
  ELSE LET rest == SplitOn(Tail(s), sep) IN
       IF Head(s) = sep THEN << <<>> >> \o rest
       ELSE << <<Head(s)>> \o Head(rest) >> \o Tail(rest)

RECURSIVE CleanSegs(_, _, _)
\* the component loop of path.Clean: drops empty and "." components and
\* resolves ".." against the components kept so far
CleanSegs(segs, out, rooted) ==
  IF segs = <<>> THEN out
  ELSE LET s == Head(segs) IN
       CleanSegs(Tail(segs),
                 IF s = <<>> \/ s = <<".">> THEN out
                 ELSE IF s = <<"..">>
                      THEN IF out # <<>> /\ out[Len(out)] # <<"..">>
                           THEN SubSeq(out, 1, Len(out) - 1)
                           ELSE IF rooted THEN out ELSE Append(out, s)
                      ELSE Append(out, s),
                 rooted)

RECURSIVE JoinSegs(_)
JoinSegs(segs) ==
  IF segs = <<>> THEN <<>>
  ELSE IF Len(segs) = 1 THEN Head(segs)
  ELSE Head(segs) \o <<"/">> \o JoinSegs(Tail(segs))

\* path.Clean
Clean(p) ==
  IF p = <<>> THEN <<".">>
  ELSE LET rooted == Head(p) = "/"
           out == CleanSegs(SplitOn(p, "/"), <<>>, rooted)
       IN IF rooted THEN <<"/">> \o JoinSegs(out)
          ELSE IF out = <<>> THEN <<".">> ELSE JoinSegs(out)

\* path.Join of two elements
Join(a, b) ==
  IF a = <<>> /\ b = <<>> THEN <<>>
  ELSE IF a = <<>> THEN Clean(b)
  ELSE Clean(a \o <<"/">> \o b)

\* url.QueryEscape on tokens: the reserved characters are percent-encoded
QueryEscape(s) ==
  [i \in 1..Len(s) |->
     CASE s[i] = "/" -> "%2F"
       [] s[i] = "?" -> "%3F"
       [] s[i] = "&" -> "%26"
       [] s[i] = "=" -> "%3D"
       [] OTHER -> s[i]]

\* fmt.Sprint of an int
Sprint(n) == <<ToString(n)>>

(***************************************************************************)
(* Errors.  An error value is the sequence of the layers of its Unwrap     *)
(* chain, outermost first; nil is the empty sequence.  A layer made by     *)
(* fmt.Errorf with %w is followed by the error it wraps; a layer made      *)
(* without %w ends the chain.                                              *)
(***************************************************************************)
NoBody == [kind |-> "none", statusCode |-> [t |-> "absent", n |-> 0],
           message |-> [t |-> "absent", s |-> ""],
           data |-> [t |-> "absent", elems |-> <<>>],
           version |-> ""]

NilErr == <<>>

Layer(type, msg, status, id, body) ==
  [type |-> type, msg |-> msg, status |-> status, id |-> id, body |-> body]

\* fmt.Errorf(msg) with no verb
Errorf(msg) == << Layer("plain", msg, 0, EmptyStr, NoBody) >>

\* fmt.Errorf(msg + ": %s", id)
ErrorfId(msg, id) == << Layer("plain", msg, 0, id, NoBody) >>

\* fmt.Errorf(msg + ": %w", err)
ErrorfW(msg, err) == << Layer("wrap", msg, 0, EmptyStr, NoBody) >> \o err

\* errors.As(err, **Error): the first *Error of the chain, if any
IsApiLayer(l) == l.type = "Error"

ErrorsAs(err) == \E i \in 1..Len(err) : IsApiLayer(err[i])

ApiErrorOf(err) ==
  err[CHOOSE i \in 1..Len(err) :
        IsApiLayer(err[i]) /\ \A j \in 1..(i - 1) : ~IsApiLayer(err[j])]

(***************************************************************************)
(* JSON bodies.  A body is empty, not JSON ("text"), the literal null, a   *)
(* top-level array, or an object of which the model keeps the keys the     *)
(* decoders look at: statusCode, message, data, applicationVersion.        *)
(***************************************************************************)
Absent == [t |-> "absent", n |-> 0]
JNum(n) == [t |-> "num", n |-> n]
JBadNum == [t |-> "str", n |-> 0]

AbsentStr == [t |-> "absent", s |-> ""]
JStr(s) == [t |-> "str", s |-> s]
JBadStr == [t |-> "num", s |-> ""]

AbsentData == [t |-> "absent", elems |-> <<>>]
NullData == [t |-> "null", elems |-> <<>>]
BadData == [t |-> "str", elems |-> <<>>]
JArray(elems) == [t |-> "array", elems |-> elems]

\* a record of a data array: its "id" and "_id" keys
JsonRecords == { [id |-> "r1", uid |-> "u1"], [id |-> "r2", uid |-> "u2"] }

RECURSIVE SeqsUpTo(_, _)
SeqsUpTo(S, n) ==
  IF n = 0 THEN { <<>> }
  ELSE LET shorter == SeqsUpTo(S, n - 1) IN
       shorter \cup { Append(q, x) : q \in shorter, x \in S }

Object(sc, msg, data, ver) ==
  [kind |-> "object", statusCode |-> sc, message |-> msg, data |-> data,
   version |-> ver]

NonObject(kind) ==
  [kind |-> kind, statusCode |-> Absent, message |-> AbsentStr,
   data |-> AbsentData, version |-> ""]

BodyStatusCodes == {404, 500}

ErrorBodies ==
  { Object(sc, msg, AbsentData, "") :
      sc \in {Absent, JBadNum} \cup { JNum(n) : n \in BodyStatusCodes },
      msg \in {AbsentStr, JBadStr, JStr("X not found")} }

DataBodies ==
  { Object(Absent, AbsentStr, d, "") :
      d \in {NullData, BadData} \cup { JArray(q) : q \in SeqsUpTo(JsonRecords, MaxData) } }

Bodies ==
  { NonObject(k) : k \in {"empty", "text", "null", "array"} }
    \cup ErrorBodies \cup DataBodies
    \cup { Object(JNum(404), JStr("X not found"), JArray(<< [id |-> "r1", uid |-> "u1"] >>), ""),
           Object(Absent, AbsentStr, AbsentData, "9.1.0") }

Statuses == {200, 201, 302, 399, 400, 404, 500}

\* what the HTTP client hands back to do: a transport error, a response
\* whose body cannot be read, or a response with its status and body
Outcomes ==
  { [kind |-> k, status |-> 0, body |-> NoBody] : k \in {"transportErr", "readErr"} }
    \cup { [kind |-> "resp", status |-> st, body |-> b] : st \in Statuses, b \in Bodies }

NoOutcome == [kind |-> "none", status |-> 0, body |-> NoBody]

\* the request carries the caller's context: once the context is cancelled
\* the HTTP client gives up the round trip, so that Do returns the context's
\* error or the read of the body fails with it
RoundTripOutcomes(cancelled) ==
  IF cancelled THEN { o \in Outcomes : o.kind \in {"transportErr", "readErr"} }
  ELSE Outcomes
(***************************************************************************)
(* encoding/json, as far as the decoders of this library go.               *)
(***************************************************************************)
ZeroError == [Status |-> 0, Message |-> ""]

\* json.Unmarshal(respBody, &apiErr): a syntax error or a top-level array
\* fails, null leaves the zero value, an object fills the keys of the right
\* type and fails on a key of the wrong type; unknown keys are ignored
UnmarshalError(body) ==
  CASE body.kind \in {"empty", "text", "array"} -> [ok |-> FALSE, v |-> ZeroError]
    [] body.kind = "null" -> [ok |-> TRUE, v |-> ZeroError]
    [] OTHER ->
       [ok |-> body.statusCode.t # "str" /\ body.message.t # "num",
        v |-> [Status |-> IF body.statusCode.t = "num" THEN body.statusCode.n ELSE 0,
               Message |-> IF body.message.t = "str" THEN body.message.s ELSE ""]]

ZeroRecord == [ID |-> ""]

\* the struct tag of the ID field: Device reads "id", the other records "_id"
DecodeRecord(target, jr) ==
  [ID |-> IF target = "Devices" THEN jr.id ELSE jr.uid]

ZeroResponse == [Data |-> <<>>, ApplicationVersion |-> ""]

\* json.Unmarshal(respBody, result) for the response structs of the
\* operations: Data []T `json:"data"`, or ApplicationInfo
UnmarshalResponse(body, target) ==
  CASE body.kind \in {"empty", "text", "array"} -> [ok |-> FALSE, v |-> ZeroResponse]
    [] body.kind = "null" -> [ok |-> TRUE, v |-> ZeroResponse]
    [] target = "Info" ->
       [ok |-> TRUE, v |-> [Data |-> <<>>, ApplicationVersion |-> body.version]]
    [] OTHER ->
       [ok |-> body.data.t # "str",
        v |-> [Data |-> [i \in 1..Len(body.data.elems) |->
                           DecodeRecord(target, body.data.elems[i])],
               ApplicationVersion |-> ""]]

(***************************************************************************)
(* Client.do                                                               *)
(***************************************************************************)
\* c.baseURL.Path as NewClient leaves it for a base URL with no path
BasePath == <<"/", "proxy", "/", "network", "/", "integration">>

NoDo == [method |-> "", urlPath |-> EmptyStr, body |-> "nil", target |-> "none"]

DoArgs(method, urlPath, body, target) ==
  [method |-> method, urlPath |-> urlPath, body |-> body, target |-> target]

NoRequest == [method |-> "", path |-> EmptyStr, query |-> EmptyStr, body |-> "none"]

\* the request do builds: the path joined to the base path, the query taken
\* from after the first "?", and the body marshalled when the body
\* interface is not nil (a nil pointer in a non-nil interface marshals to null)
doRequest(a) ==
  LET pathParts == SplitOn(a.urlPath, "?") IN
  [method |-> a.method,
   path |-> Join(BasePath, pathParts[1]),
   query |-> IF Len(pathParts) > 1 THEN pathParts[2] ELSE EmptyStr,
   body |-> CASE a.body = "nil" -> "none"
              [] a.body = "nilptr" -> "null"
              [] OTHER -> "object"]

\* doSend with the request handed to the transport a second time
doSendTwice(requests, req) == requests \o <<req, req>>

\* c.httpClient.Do(req): the one place a request is handed to the transport
doSend(requests, req) == Append(requests, req)

NoDoRet == [err |-> NilErr, result |-> ZeroResponse, unmarshalled |-> FALSE]

DoRet(err, result, unmarshalled) ==
  [err |-> err, result |-> result, unmarshalled |-> unmarshalled]

\* IsErrorStatus with the comparison strict
IsErrorStatusStrict(status) == status > ErrorStatusFloor

\* resp.StatusCode >= 400
IsErrorStatus(status) == status >= ErrorStatusFloor

\* doApiError taking the Error's status from the HTTP status line
doApiErrorHttpStatus(o) ==
  LET d == UnmarshalError(o.body) IN
  IF ~d.ok
  THEN DoRet(<< Layer("plain", "API error (status %d): %s", o.status, EmptyStr, o.body) >>,
             ZeroResponse, FALSE)
  ELSE DoRet(<< Layer("Error", d.v.Message, o.status, EmptyStr, NoBody) >>,
             ZeroResponse, FALSE)

\* doApiError with the decode error of the error body ignored
doApiErrorUnchecked(o) ==
  LET d == UnmarshalError(o.body) IN
  DoRet(<< Layer("Error", d.v.Message, d.v.Status, EmptyStr, NoBody) >>,
        ZeroResponse, FALSE)

\* the branch of do for an error status: the body decoded into an Error, or
\* the fallback error with the status and the raw body
doApiError(o) ==
  LET d == UnmarshalError(o.body) IN
  IF ~d.ok
  THEN DoRet(<< Layer("plain", "API error (status %d): %s", o.status, EmptyStr, o.body) >>,
             ZeroResponse, FALSE)
  ELSE DoRet(<< Layer("Error", d.v.Message, d.v.Status, EmptyStr, NoBody) >>,
             ZeroResponse, FALSE)

\* the branch of do for any other status: the body decoded into the output
\* target when there is one
doDecode(o, target) ==
  IF target # "none"
  THEN LET d == UnmarshalResponse(o.body, target) IN
       IF ~d.ok
       THEN DoRet(ErrorfW("failed to decode response",
                          << Layer("cause", "json", 0, EmptyStr, o.body) >>),
                  d.v, TRUE)
       ELSE DoRet(NilErr, d.v, TRUE)
  ELSE DoRet(NilErr, ZeroResponse, FALSE)

\* doResponse with the error of httpClient.Do dropped
doResponseDropsDoError(o, target) ==
  IF o.kind = "transportErr" THEN DoRet(NilErr, ZeroResponse, FALSE)
  ELSE IF o.kind = "readErr"
  THEN DoRet(ErrorfW("failed to read response body",
                     << Layer("cause", "read error", 0, EmptyStr, NoBody) >>),
             ZeroResponse, FALSE)
  ELSE IF IsErrorStatus(o.status) THEN doApiError(o)
  ELSE doDecode(o, target)

\* do, from the return of httpClient.Do to its own return
doResponse(o, target) ==
  IF o.kind = "transportErr"
  THEN DoRet(ErrorfW("failed to execute request",
                     << Layer("cause", "network error", 0, EmptyStr, NoBody) >>),
             ZeroResponse, FALSE)
  ELSE IF o.kind = "readErr"
  THEN DoRet(ErrorfW("failed to read response body",
                     << Layer("cause", "read error", 0, EmptyStr, NoBody) >>),
             ZeroResponse, FALSE)
  ELSE IF IsErrorStatus(o.status) THEN doApiError(o)
  ELSE doDecode(o, target)

(***************************************************************************)
(* Arguments of the operations.                                            *)
(***************************************************************************)
NilParams == [isNil |-> TRUE, Offset |-> 0, Limit |-> 0, Type |-> "", WithinHours |-> 0]

Params(o, l, t, w) ==
  [isNil |-> FALSE, Offset |-> o, Limit |-> l, Type |-> t, WithinHours |-> w]

NilRequest ==
  [isNil |-> TRUE, Count |-> 0, Name |-> "", AuthorizeGuestLimit |-> 0,
   TimeLimitMinutes |-> 0, DataUsageLimitMB |-> 0, RxRateLimitKbps |-> 0,
   TxRateLimitKbps |-> 0]

Request(c, n, g, t, d, rx, tx) ==
  [isNil |-> FALSE, Count |-> c, Name |-> n, AuthorizeGuestLimit |-> g,
   TimeLimitMinutes |-> t, DataUsageLimitMB |-> d, RxRateLimitKbps |-> rx,
   TxRateLimitKbps |-> tx]

NilAction == [isNil |-> TRUE, PortID |-> EmptyStr]

Action(portID) == [isNil |-> FALSE, PortID |-> portID]

\* a pointer argument handed to do as its body interface{}: never the nil
\* interface, whatever the pointer
BodyOf(ptr) == IF ptr.isNil THEN "nilptr" ELSE "value"

(***************************************************************************)
(* What an operation does before it blocks in do: it fails with a          *)
(* validation error, or it calls do.                                       *)
(***************************************************************************)
Fail(err) == [err |-> err, do |-> NoDo]

Do(method, urlPath, body, target) ==
  [err |-> NilErr, do |-> DoArgs(method, urlPath, body, target)]

\* query.Encode(): the keys that were set, sorted by key
Encode(pairs) ==
  LET RECURSIVE enc(_)
      enc(ps) == IF ps = <<>> THEN <<>>
                 ELSE Head(ps)[1] \o <<"=">> \o QueryEscape(Head(ps)[2])
                      \o (IF Len(ps) > 1 THEN <<"&">> ELSE <<>>) \o enc(Tail(ps))
  IN enc(pairs)

WithQuery(urlPath, pairs) ==
  IF Len(pairs) > 0 THEN urlPath \o <<"?">> \o Encode(pairs) ELSE urlPath

Pair(key, value) == << <<key>>, value >>

\* LimitPair with a limit of 0 written to the query as well
LimitPairFromZero(params) ==
  IF params.Limit >= 0 THEN << Pair("limit", Sprint(params.Limit)) >> ELSE <<>>

LimitPair(params) ==
  IF params.Limit > 0 THEN << Pair("limit", Sprint(params.Limit)) >> ELSE <<>>

OffsetPair(params) ==
  IF params.Offset > 0 THEN << Pair("offset", Sprint(params.Offset)) >> ELSE <<>>

TypePair(params) ==
  IF params.Type # "" THEN << Pair("type", <<params.Type>>) >> ELSE <<>>

WithinPair(params) ==
  IF params.WithinHours > 0 THEN << Pair("within", Sprint(params.WithinHours)) >> ELSE <<>>

V1Sites == <<"/", "v1", "/", "sites">>
ApiV1Sites == <<"/", "api", "/", "v1", "/", "sites">>

ListSites(params) ==
  IF params.isNil THEN Do("GET", V1Sites, "nil", "Sites")
  ELSE IF params.Limit > 0 /\ params.Limit > 200
  THEN Fail(Errorf("limit must be between 0 and 200"))
  ELSE Do("GET", WithQuery(V1Sites, LimitPair(params) \o OffsetPair(params)),
          "nil", "Sites")

GetSite(siteID) ==
  IF siteID = EmptyStr THEN Fail(Errorf("siteID cannot be empty"))
  ELSE Do("GET", V1Sites \o <<"/">> \o siteID, "nil", "Sites")

ListDevices(siteID, params) ==
  IF ~params.isNil /\ params.Limit > maxLimit
  THEN Fail(Errorf("limit must be between 0 and 200"))
  ELSE IF ~params.isNil /\ params.Offset < 0
  THEN Fail(Errorf("offset must be non-negative"))
  ELSE LET urlPath == ApiV1Sites \o <<"/">> \o siteID \o <<"/", "devices">> IN
       IF params.isNil THEN Do("GET", urlPath, "nil", "Devices")
       ELSE Do("GET",
               WithQuery(urlPath, LimitPair(params) \o OffsetPair(params) \o TypePair(params)),
               "nil", "Devices")

GetDevice(siteID, deviceID) ==
  Do("GET", ApiV1Sites \o <<"/">> \o siteID \o <<"/", "devices", "/">> \o deviceID,
     "nil", "Devices")

ExecutePortAction(siteID, deviceID, action) ==
  IF action.isNil THEN Fail(Errorf("action cannot be nil"))
  ELSE Do("POST",
          ApiV1Sites \o <<"/">> \o siteID \o <<"/", "devices", "/">> \o deviceID
            \o <<"/", "port", "/">> \o action.PortID,
          BodyOf(action), "none")

ExecuteDeviceAction(siteID, deviceID, action) ==
  IF action.isNil THEN Fail(Errorf("action cannot be nil"))
  ELSE Do("POST",
          ApiV1Sites \o <<"/">> \o siteID \o <<"/", "devices", "/">> \o deviceID,
          BodyOf(action), "none")

GetDeviceStatistics(siteID, deviceID) ==
  Do("GET",
     ApiV1Sites \o <<"/">> \o siteID \o <<"/", "devices", "/">> \o deviceID
       \o <<"/", "stats">>,
     "nil", "Stats")

\* ListNetworkClients with the type checked before the limit
ListNetworkClientsTypeFirst(siteID, params) ==
  IF siteID = EmptyStr THEN Fail(Errorf("siteId is required"))
  ELSE LET urlPath == V1Sites \o <<"/">> \o siteID \o <<"/", "clients">> IN
       IF params.isNil THEN Do("GET", urlPath, "nil", "Clients")
       ELSE IF params.Type # "" /\ params.Type # "all" /\ params.Type # "wired"
               /\ params.Type # "wireless"
       THEN Fail(Errorf("type must be one of: all, wired, wireless"))
       ELSE IF params.Limit > 0 /\ params.Limit > 200
       THEN Fail(Errorf("limit must be between 0 and 200"))
       ELSE Do("GET",
               WithQuery(urlPath, LimitPair(params) \o OffsetPair(params)
                                    \o TypePair(params) \o WithinPair(params)),
               "nil", "Clients")

ListNetworkClients(siteID, params) ==
  IF siteID = EmptyStr THEN Fail(Errorf("siteId is required"))
  ELSE LET urlPath == V1Sites \o <<"/">> \o siteID \o <<"/", "clients">> IN
       IF params.isNil THEN Do("GET", urlPath, "nil", "Clients")
       ELSE IF params.Limit > 0 /\ params.Limit > 200
       THEN Fail(Errorf("limit must be between 0 and 200"))
       ELSE IF params.Type # "" /\ params.Type # "all" /\ params.Type # "wired"
               /\ params.Type # "wireless"
       THEN Fail(Errorf("type must be one of: all, wired, wireless"))
       ELSE Do("GET",
               WithQuery(urlPath, LimitPair(params) \o OffsetPair(params)
                                    \o TypePair(params) \o WithinPair(params)),
               "nil", "Clients")

GetNetworkClient(siteID, clientID) ==
  IF siteID = EmptyStr THEN Fail(Errorf("siteId is required"))
  ELSE IF clientID = EmptyStr THEN Fail(Errorf("clientId is required"))
  ELSE Do("GET", V1Sites \o <<"/">> \o siteID \o <<"/", "clients", "/">> \o clientID,
          "nil", "Clients")

\* BlockNetworkClient with the client id checked before the site id
BlockNetworkClientClientFirst(siteID, clientID) ==
  IF clientID = EmptyStr THEN Fail(Errorf("clientId is required"))
  ELSE IF siteID = EmptyStr THEN Fail(Errorf("siteId is required"))
  ELSE Do("POST",
          V1Sites \o <<"/">> \o siteID \o <<"/", "clients", "/">> \o clientID
            \o <<"/", "block">>,
          "nil", "none")

BlockNetworkClient(siteID, clientID) ==
  IF siteID = EmptyStr THEN Fail(Errorf("siteId is required"))
  ELSE IF clientID = EmptyStr THEN Fail(Errorf("clientId is required"))
  ELSE Do("POST",
          V1Sites \o <<"/">> \o siteID \o <<"/", "clients", "/">> \o clientID
            \o <<"/", "block">>,
          "nil", "none")

UnblockNetworkClient(siteID, clientID) ==
  IF siteID = EmptyStr THEN Fail(Errorf("siteId is required"))
  ELSE IF clientID = EmptyStr THEN Fail(Errorf("clientId is required"))
  ELSE Do("POST",
          V1Sites \o <<"/">> \o siteID \o <<"/", "clients", "/">> \o clientID
            \o <<"/", "unblock">>,
          "nil", "none")

VouchersPath(siteID) == ApiV1Sites \o <<"/">> \o siteID \o <<"/", "hotspot", "/", "vouchers">>

ListHotspotVouchers(siteID, params) ==
  IF params.isNil THEN Do("GET", VouchersPath(siteID), "nil", "Vouchers")
  ELSE Do("GET", WithQuery(VouchersPath(siteID), LimitPair(params) \o OffsetPair(params)),
          "nil", "Vouchers")

CreateHotspotVoucher(siteID, request) ==
  Do("POST", VouchersPath(siteID), BodyOf(request), "Vouchers")

GetHotspotVoucher(siteID, voucherID) ==
  Do("GET", VouchersPath(siteID) \o <<"/">> \o voucherID, "nil", "Vouchers")

DeleteHotspotVoucher(siteID, voucherID) ==
  Do("DELETE", VouchersPath(siteID) \o <<"/">> \o voucherID, "nil", "none")

\* CountOutOfRange with the upper bound excluded
CountOutOfRangeExclusive(request) ==
  request.Count < MinCount \/ request.Count >= MaxCount

CountOutOfRange(request) ==
  request.Count < MinCount \/ request.Count > MaxCount

TimeLimitOutOfRange(request) ==
  request.TimeLimitMinutes < MinTimeLimit \/ request.TimeLimitMinutes > MaxTimeLimit

DataUsageOutOfRange(request) ==
  request.DataUsageLimitMB # 0
    /\ (request.DataUsageLimitMB < MinDataUsage \/ request.DataUsageLimitMB > MaxDataUsage)

RxRateOutOfRange(request) ==
  request.RxRateLimitKbps # 0
    /\ (request.RxRateLimitKbps < MinRate \/ request.RxRateLimitKbps > MaxRate)

TxRateOutOfRange(request) ==
  request.TxRateLimitKbps # 0
    /\ (request.TxRateLimitKbps < MinRate \/ request.TxRateLimitKbps > MaxRate)

\* GenerateHotspotVouchers with the count checked before the name
GenerateHotspotVouchersCountFirst(siteID, request) ==
  IF request.isNil THEN Fail(Errorf("request cannot be nil"))
  ELSE IF CountOutOfRange(request) THEN Fail(Errorf("count must be between 1 and 10000"))
  ELSE IF request.Name = "" THEN Fail(Errorf("name is required"))
  ELSE IF TimeLimitOutOfRange(request)
  THEN Fail(Errorf("timeLimitMinutes must be between 1 and 1000000"))
  ELSE IF request.AuthorizeGuestLimit < 0
  THEN Fail(Errorf("authorizedGuestLimit must be greater than 0"))
  ELSE IF DataUsageOutOfRange(request)
  THEN Fail(Errorf("dataUsageLimitMBytes must be between 1 and 1046576"))
  ELSE IF RxRateOutOfRange(request)
  THEN Fail(Errorf("rxRateLimitKbps must be between 2 and 100000"))
  ELSE IF TxRateOutOfRange(request)
  THEN Fail(Errorf("txRateLimitKbps must be between 2 and 100000"))
  ELSE Do("POST", VouchersPath(siteID) \o <<"/", "create">>, BodyOf(request), "Vouchers")

GenerateHotspotVouchers(siteID, request) ==
  IF request.isNil THEN Fail(Errorf("request cannot be nil"))
  ELSE IF request.Name = "" THEN Fail(Errorf("name is required"))
  ELSE IF CountOutOfRange(request) THEN Fail(Errorf("count must be between 1 and 10000"))
  ELSE IF TimeLimitOutOfRange(request)
  THEN Fail(Errorf("timeLimitMinutes must be between 1 and 1000000"))
  ELSE IF request.AuthorizeGuestLimit < 0
  THEN Fail(Errorf("authorizedGuestLimit must be greater than 0"))
  ELSE IF DataUsageOutOfRange(request)
  THEN Fail(Errorf("dataUsageLimitMBytes must be between 1 and 1046576"))
  ELSE IF RxRateOutOfRange(request)
  THEN Fail(Errorf("rxRateLimitKbps must be between 2 and 100000"))
  ELSE IF TxRateOutOfRange(request)
  THEN Fail(Errorf("txRateLimitKbps must be between 2 and 100000"))
  ELSE Do("POST", VouchersPath(siteID) \o <<"/", "create">>, BodyOf(request), "Vouchers")

GetVoucherDetails(siteID, voucherID) ==
  IF siteID = EmptyStr THEN Fail(Errorf("siteId is required"))
  ELSE IF voucherID = EmptyStr THEN Fail(Errorf("voucherId is required"))
  ELSE Do("GET", VouchersPath(siteID) \o <<"/">> \o voucherID, "nil", "Vouchers")

GetApplicationInfo ==
  Do("GET", <<"/", "v1", "/", "info">>, "nil", "Info")
(***************************************************************************)
(* What an operation does with the return of do.                           *)
(***************************************************************************)
NilResult == [isNil |-> TRUE, Data |-> <<>>, rec |-> ZeroRecord, ApplicationVersion |-> ""]

Ret(result, err) == [result |-> result, err |-> err]

\* return &response, nil
ResponseResult(response) ==
  [isNil |-> FALSE, Data |-> response.Data, rec |-> ZeroRecord,
   ApplicationVersion |-> response.ApplicationVersion]

\* FirstRecord taking the last record of the array
LastRecord(response) ==
  [isNil |-> FALSE, Data |-> <<>>, rec |-> response.Data[Len(response.Data)],
   ApplicationVersion |-> ""]

\* return &response.Data[0], nil
FirstRecord(response) ==
  [isNil |-> FALSE, Data |-> <<>>, rec |-> response.Data[1], ApplicationVersion |-> ""]

\* the tail of a list, create or info operation
ListReturn(msg, d) ==
  IF d.err # NilErr THEN Ret(NilResult, ErrorfW(msg, d.err))
  ELSE Ret(ResponseResult(d.result), NilErr)

\* GetReturn returning neither a record nor an error for an empty data array
GetReturnNothing(msg, notFound, id, d) ==
  IF d.err # NilErr THEN Ret(NilResult, ErrorfW(msg, d.err))
  ELSE IF Len(d.result.Data) = 0 THEN Ret(NilResult, NilErr)
  ELSE Ret(FirstRecord(d.result), NilErr)

\* the tail of a get-by-id operation
GetReturn(msg, notFound, id, d) ==
  IF d.err # NilErr THEN Ret(NilResult, ErrorfW(msg, d.err))
  ELSE IF Len(d.result.Data) = 0 THEN Ret(NilResult, ErrorfId(notFound, id))
  ELSE Ret(FirstRecord(d.result), NilErr)

\* the tail of an action or delete operation
ActionReturn(msg, d) ==
  IF d.err # NilErr THEN Ret(NilResult, ErrorfW(msg, d.err))
  ELSE Ret(NilResult, NilErr)

ListSitesReturn(d) == ListReturn("failed to list sites", d)

GetSiteReturn(siteID, d) ==
  GetReturn("failed to get site", "site not found", siteID, d)

ListDevicesReturn(d) == ListReturn("failed to list devices", d)

GetDeviceReturn(deviceID, d) ==
  GetReturn("failed to get device", "device not found", deviceID, d)

ExecutePortActionReturn(d) == ActionReturn("failed to execute port action", d)

ExecuteDeviceActionReturn(d) == ActionReturn("failed to execute device action", d)

GetDeviceStatisticsReturn(deviceID, d) ==
  GetReturn("failed to get device statistics", "no statistics found for device",
            deviceID, d)

ListNetworkClientsReturn(d) == ListReturn("failed to list network clients", d)

GetNetworkClientReturn(clientID, d) ==
  GetReturn("failed to get network client", "network client not found", clientID, d)

BlockNetworkClientReturn(d) == ActionReturn("failed to block network client", d)

UnblockNetworkClientReturn(d) == ActionReturn("failed to unblock network client", d)

\* ListHotspotVouchersReturn formatting the error of do with %v: its text is
\* kept, its chain is not
ListHotspotVouchersReturnV(d) ==
  IF d.err # NilErr
  THEN Ret(NilResult, << Layer("plain", "failed to list hotspot vouchers", 0, EmptyStr, NoBody) >>)
  ELSE Ret(ResponseResult(d.result), NilErr)

ListHotspotVouchersReturn(d) == ListReturn("failed to list hotspot vouchers", d)

CreateHotspotVoucherReturn(d) == ListReturn("failed to create hotspot voucher", d)

GetHotspotVoucherReturn(voucherID, d) ==
  GetReturn("failed to get hotspot voucher", "voucher not found", voucherID, d)

DeleteHotspotVoucherReturn(d) == ActionReturn("failed to delete hotspot voucher", d)

GenerateHotspotVouchersReturn(d) == ListReturn("failed to generate hotspot vouchers", d)

GetVoucherDetailsReturn(voucherID, d) ==
  GetReturn("failed to get voucher details", "voucher not found", voucherID, d)

GetApplicationInfoReturn(d) == ListReturn("failed to get application info", d)

\* the operation in progress resumes with the return of do
Resume(c, d) ==
  CASE c.op = "ListSites" -> ListSitesReturn(d)
    [] c.op = "GetSite" -> GetSiteReturn(c.siteID, d)
    [] c.op = "ListDevices" -> ListDevicesReturn(d)
    [] c.op = "GetDevice" -> GetDeviceReturn(c.id, d)
    [] c.op = "ExecutePortAction" -> ExecutePortActionReturn(d)
    [] c.op = "ExecuteDeviceAction" -> ExecuteDeviceActionReturn(d)
    [] c.op = "GetDeviceStatistics" -> GetDeviceStatisticsReturn(c.id, d)
    [] c.op = "ListNetworkClients" -> ListNetworkClientsReturn(d)
    [] c.op = "GetNetworkClient" -> GetNetworkClientReturn(c.id, d)
    [] c.op = "BlockNetworkClient" -> BlockNetworkClientReturn(d)
    [] c.op = "UnblockNetworkClient" -> UnblockNetworkClientReturn(d)
    [] c.op = "ListHotspotVouchers" -> ListHotspotVouchersReturn(d)
    [] c.op = "CreateHotspotVoucher" -> CreateHotspotVoucherReturn(d)
    [] c.op = "GetHotspotVoucher" -> GetHotspotVoucherReturn(c.id, d)
    [] c.op = "DeleteHotspotVoucher" -> DeleteHotspotVoucherReturn(d)
    [] c.op = "GenerateHotspotVouchers" -> GenerateHotspotVouchersReturn(d)
    [] c.op = "GetVoucherDetails" -> GetVoucherDetailsReturn(c.id, d)
    [] OTHER -> GetApplicationInfoReturn(d)

(***************************************************************************)
(* NewClient.  url.Parse either fails or yields the URL, of which the      *)
(* model keeps the path; a path is a token string, and a run of ordinary   *)
(* characters that continues a token ("integration" followed by "v2") is   *)
(* a token of its own.                                                     *)
(***************************************************************************)
ApiPrefix == <<"/", "proxy", "/", "network", "/", "integration">>

\* strings.TrimPrefix
TrimPrefix(s, prefix) ==
  IF Len(s) >= Len(prefix) /\ SubSeq(s, 1, Len(prefix)) = prefix
  THEN SubSeq(s, Len(prefix) + 1, Len(s))
  ELSE s

\* the path NewClient gives the base URL
NormalizePath(urlPath) ==
  LET trimmedPath == TrimPrefix(TrimPrefix(urlPath, ApiPrefix), Tail(ApiPrefix))
  IN Join(ApiPrefix, trimmedPath)

\* the options: each is a function that sets one field of the client
WithHTTPClient(httpClient) == [field |-> "httpClient", str |-> httpClient, flag |-> FALSE]
WithAPIKey(apiKey) == [field |-> "apiKey", str |-> apiKey, flag |-> FALSE]
WithInsecure(insecure) == [field |-> "insecure", str |-> "", flag |-> insecure]
WithLogger(logger) == [field |-> "logger", str |-> logger, flag |-> FALSE]

\* opt(client)
ApplyOption(opt, c) ==
  IF opt.field = "insecure" THEN [c EXCEPT !.insecure = opt.flag]
  ELSE [c EXCEPT ![opt.field] = opt.str]

NoClient ==
  [baseURL |-> EmptyStr, httpClient |-> "", apiKey |-> "", insecure |-> FALSE,
   logger |-> ""]

\* client := &Client{baseURL: parsedURL, httpClient: http.DefaultClient,
\*                   logger: defaultLogger}
NewClientDefaults(urlPath) ==
  [baseURL |-> NormalizePath(urlPath), httpClient |-> "http.DefaultClient",
   apiKey |-> "", insecure |-> FALSE, logger |-> "defaultLogger"]

\* with the insecure flag set, the HTTP client is replaced by a new one whose
\* transport skips certificate verification
ConfigureTLS(c) ==
  IF c.insecure THEN [c EXCEPT !.httpClient = "insecureClient"] ELSE c

NoNewRet == [kind |-> "none", err |-> NilErr]

\* NewClient after the option loop: the API key check, the TLS
\* configuration, the debug record written through client.logger (a nil
\* logger is dereferenced there), and the return
NewClientFinish(c) ==
  IF c.apiKey = "" THEN [client |-> c, ret |-> [kind |-> "error", err |-> Errorf("API key is required")]]
  ELSE IF ConfigureTLS(c).logger = "nil"
  THEN [client |-> ConfigureTLS(c), ret |-> [kind |-> "panic", err |-> NilErr]]
  ELSE [client |-> ConfigureTLS(c), ret |-> [kind |-> "client", err |-> NilErr]]

(***************************************************************************)
(* Concurrent calls on one client.  Every caller runs Client.do on the     *)
(* same *Client; the steps of do that read or write a URL are separate, so *)
(* that they interleave.                                                   *)
(***************************************************************************)
NumCallers == 2

Callers == 1..NumCallers

URL(p, q) == [Path |-> p, RawQuery |-> q]

\* the client NewClient returned for a base URL with no path and no query
SharedClient ==
  [baseURL |-> URL(BasePath, EmptyStr), apiKey |-> "key1", httpClient |-> "default"]

NoSentRequest ==
  [path |-> EmptyStr, query |-> EmptyStr, apiKey |-> "", httpClient |-> ""]

IdleCaller ==
  [pc |-> "idle", urlPath |-> EmptyStr, u |-> URL(EmptyStr, EmptyStr),
   req |-> NoSentRequest]

\* u := *c.baseURL copies the URL value; u is the caller's own
doCopyBaseURL(c) == c.baseURL

\* doSetPath when u is the client's URL itself (u := c.baseURL): the joined
\* path is written through the pointer
doSetPathOfBase(c, u, urlPath) ==
  LET joined == Join(c.baseURL.Path, SplitOn(urlPath, "?")[1]) IN
  [client |-> [c EXCEPT !.baseURL = URL(joined, c.baseURL.RawQuery)],
   u |-> URL(joined, u.RawQuery)]

\* u.Path = path.Join(u.Path, pathParts[0]): a write to the caller's copy
doSetPath(c, u, urlPath) ==
  [client |-> c,
   u |-> URL(Join(u.Path, SplitOn(urlPath, "?")[1]), u.RawQuery)]

\* if len(pathParts) > 1 { u.RawQuery = pathParts[1] }
doSetRawQuery(c, u, urlPath) ==
  LET pathParts == SplitOn(urlPath, "?") IN
  [client |-> c,
   u |-> IF Len(pathParts) > 1 THEN URL(u.Path, pathParts[2]) ELSE u]

\* the request built from u, the X-API-KEY header read from c.apiKey, and
\* the HTTP client read from c.httpClient
doBuildAndSend(c, u) ==
  [path |-> u.Path, query |-> u.RawQuery, apiKey |-> c.apiKey,
   httpClient |-> c.httpClient]

(***************************************************************************)
(* The Device codec: encoding/json on a Device, of which the model keeps   *)
(* ID, Type and Features.  A []string is nil or a list.                    *)
(***************************************************************************)
MaxFeatures == 2

FeatureNames == {"switching", "accessPoint"}

NilFeatures == [isNil |-> TRUE, elems |-> <<>>]
FeatureList(elems) == [isNil |-> FALSE, elems |-> elems]

Device(id, type, features) == [ID |-> id, Type |-> type, Features |-> features]

ZeroDevice == Device("", "", NilFeatures)

\* a JSON object for a device: its "id", "type" and "features" keys
DeviceJSON(id, type, features) == [id |-> id, type |-> type, features |-> features]

NoDevice == [encoded |-> FALSE, v |-> ZeroDevice]
NoDeviceJSON == DeviceJSON(AbsentStr, AbsentStr, AbsentData)
NoDecoded == [ok |-> FALSE, v |-> ZeroDevice]

\* json.Marshal of a Device: Type has the tag "-" and is not written; a nil
\* slice is written as null
MarshalDevice(d) ==
  DeviceJSON(JStr(d.ID), AbsentStr,
             IF d.Features.isNil THEN NullData ELSE JArray(d.Features.elems))

\* the fields json.Unmarshal sets through the Alias: a key that is absent
\* leaves the field as it was, null makes a slice nil, "type" is not a key of
\* the struct
UnmarshalAlias(d, j) ==
  [d EXCEPT !.ID = IF j.id.t = "str" THEN j.id.s ELSE @,
            !.Features = CASE j.features.t = "array" -> FeatureList(j.features.elems)
                           [] j.features.t = "null" -> NilFeatures
                           [] OTHER -> @]

\* UnmarshalJSON with Type read from the "type" key like any other field
UnmarshalJSONTypeKey(d, j) ==
  IF j.id.t = "num" \/ j.features.t = "str" THEN [ok |-> FALSE, v |-> d]
  ELSE LET aux == UnmarshalAlias(d, j) IN
       [ok |-> TRUE,
        v |-> IF j.type.t = "str" THEN [aux EXCEPT !.Type = j.type.s]
              ELSE IF Len(aux.Features.elems) > 0
              THEN [aux EXCEPT !.Type = aux.Features.elems[1]]
              ELSE aux]

\* (*Device).UnmarshalJSON: decode through the Alias, return its error, then
\* derive Type from Features when there are any
UnmarshalJSON(d, j) ==
  IF j.id.t = "num" \/ j.features.t = "str" THEN [ok |-> FALSE, v |-> d]
  ELSE LET aux == UnmarshalAlias(d, j) IN
       [ok |-> TRUE,
        v |-> IF Len(aux.Features.elems) > 0
              THEN [aux EXCEPT !.Type = aux.Features.elems[1]]
              ELSE aux]

(***************************************************************************)
(* The inputs the model draws from.                                        *)
(***************************************************************************)
\* ids are any strings: the empty one, an ordinary one, and ones that hold
\* the characters path building treats specially
SiteIDs == { EmptyStr, <<"default">>, <<"..", "?", "x">> }
RecordIDs ==
  { EmptyStr, <<"abc123">>, <<"..">>, <<"x", "?", "admin", "=", "1">>,
    <<"..", "/", "..", "/", "..", "/", "..", "/", "..", "/", "..", "/", "..", "/", "..",
      "/", "evil">> }
PortIDs == { EmptyStr, <<"port1">> }

Offsets == {-1, 0, 50}
Limits == {-1, 0, 25, 200, 201}
DeviceTypes == {"", "uap"}
ClientTypes == {"", "all", "wired", "wireless", "Wired", "bogus"}
Withins == {0, 24}

PageParams == {NilParams} \cup { Params(o, l, "", 0) : o \in Offsets, l \in Limits }

DeviceParams ==
  {NilParams} \cup { Params(o, l, t, 0) : o \in Offsets, l \in Limits, t \in DeviceTypes }

ClientParams ==
  {NilParams} \cup { Params(o, l, t, w) : o \in Offsets, l \in Limits,
                                          t \in ClientTypes, w \in Withins }

Names == {"", "Test"}
Counts == {0, 1, 10000, 10001}
TimeLimits == {0, 1, 1000000, 1000001}
GuestLimits == {-1, 0, 1}
DataLimits == {-1, 0, 1, 1046576, 1046577}
RateLimits == {-1, 0, 1, 2, 100000, 100001}

GenerateRequests ==
  {NilRequest} \cup
  { Request(c, n, g, t, d, rx, tx) :
      c \in Counts, n \in Names, g \in GuestLimits, t \in TimeLimits,
      d \in DataLimits, rx \in RateLimits, tx \in RateLimits }

CreateRequests ==
  { NilRequest, Request(1, "Test", 2, 1440, 1024, 1024, 512), Request(0, "", 0, 0, 0, 0, 0) }

PortActions == {NilAction} \cup { Action(p) : p \in PortIDs }
DeviceActions == { NilAction, Action(EmptyStr) }

\* base URLs: one that url.Parse rejects, and parseable ones by their path
BaseURL(parseable, urlPath) == [parseable |-> parseable, path |-> urlPath]

URLPaths ==
  { EmptyStr,
    <<"/">>,
    ApiPrefix,
    Tail(ApiPrefix),
    ApiPrefix \o <<"/">>,
    <<"/", "api">>,
    ApiPrefix \o <<"v2">>,
    ApiPrefix \o <<"/", "v1">>,
    <<"/", "unifi">> \o ApiPrefix,
    ApiPrefix \o ApiPrefix,
    <<"/", "..">> }

BaseURLs == { BaseURL(FALSE, EmptyStr) } \cup { BaseURL(TRUE, p) : p \in URLPaths }

HTTPClients == {"custom1", "custom2"}
APIKeys == {"", "key1"}
Loggers == {"custom", "nil"}

Options ==
  { WithHTTPClient(h) : h \in HTTPClients } \cup { WithAPIKey(k) : k \in APIKeys }
    \cup { WithInsecure(b) : b \in BOOLEAN } \cup { WithLogger(l) : l \in Loggers }

NoNewArgs == [baseURL |-> BaseURL(FALSE, EmptyStr), options |-> <<>>]

Call(op, siteID, id, params, request, action) ==
  [op |-> op, siteID |-> siteID, id |-> id, params |-> params, request |-> request,
   action |-> action]

NoCall == Call("", EmptyStr, EmptyStr, NilParams, NilRequest, NilAction)

NoRet == Ret(NilResult, NilErr)

\* the paths operations hand to do, with and without a query
ConcurrentPaths ==
  { ListSites(NilParams).do.urlPath,
    ListSites(Params(50, 25, "", 0)).do.urlPath,
    GetSite(<<"default">>).do.urlPath,
    ListDevices(<<"default">>, Params(0, 25, "uap", 0)).do.urlPath }

FeatureLists ==
  {NilFeatures} \cup { FeatureList(q) : q \in SeqsUpTo(FeatureNames, MaxFeatures) }

\* the Devices a mock server is given to encode
Devices ==
  { Device(id, type, f) : id \in {"", "abc123"}, type \in {"", "uap", "switching"},
                          f \in FeatureLists }

\* the device objects a controller sends
DeviceJSONs ==
  { DeviceJSON(id, type, f) :
      id \in {AbsentStr, JStr("abc123")}, type \in {AbsentStr, JStr("uap")},
      f \in {AbsentData, NullData, BadData}
            \cup { JArray(q) : q \in SeqsUpTo(FeatureNames, MaxFeatures) } }

\* every operation decodes into a variable it has just declared
DecodeTargets == { ZeroDevice }

(***************************************************************************)
(* The state machine: one call at a time on one client.                    *)
(***************************************************************************)
Init ==
  /\ pc = "idle"
  /\ call = NoCall
  /\ doArgs = NoDo
  /\ sent = <<>>
  /\ resp = NoOutcome
  /\ doRet = NoDoRet
  /\ ret = NoRet
  /\ ctxDone = FALSE
  /\ newPc = "idle"
  /\ newArgs = NoNewArgs
  /\ client = NoClient
  /\ applied = 0
  /\ newRet = NoNewRet
  /\ shared = SharedClient
  /\ callers = [p \in Callers |-> IdleCaller]
  /\ codecPc = "idle"
  /\ original = NoDevice
  /\ wire = NoDeviceJSON
  /\ decoded = NoDecoded

\* the caller enters operation c, which runs up to its return (a validation
\* error) or up to httpClient.Do inside do
Enter(c, pre) ==
  /\ UNCHANGED <<newVars, concVars, codecVars>>
  /\ ctxDone' = FALSE
  /\ call' = c
  /\ resp' = NoOutcome
  /\ doRet' = NoDoRet
  /\ IF pre.err # NilErr
     THEN /\ pc' = "done"
          /\ doArgs' = NoDo
          /\ sent' = <<>>
          /\ ret' = Ret(NilResult, pre.err)
     ELSE /\ pc' = "inflight"
          /\ doArgs' = pre.do
          /\ sent' = doSend(<<>>, doRequest(pre.do))
          /\ ret' = NoRet

CallListSites ==
  /\ pc = "idle"
  /\ \E params \in PageParams :
       Enter(Call("ListSites", EmptyStr, EmptyStr, params, NilRequest, NilAction),
             ListSites(params))

CallGetSite ==
  /\ pc = "idle"
  /\ \E siteID \in SiteIDs :
       Enter(Call("GetSite", siteID, EmptyStr, NilParams, NilRequest, NilAction),
             GetSite(siteID))

CallListDevices ==
  /\ pc = "idle"
  /\ \E siteID \in SiteIDs, params \in DeviceParams :
       Enter(Call("ListDevices", siteID, EmptyStr, params, NilRequest, NilAction),
             ListDevices(siteID, params))

CallGetDevice ==
  /\ pc = "idle"
  /\ \E siteID \in SiteIDs, deviceID \in RecordIDs :
       Enter(Call("GetDevice", siteID, deviceID, NilParams, NilRequest, NilAction),
             GetDevice(siteID, deviceID))

CallExecutePortAction ==
  /\ pc = "idle"
  /\ \E siteID \in SiteIDs, deviceID \in RecordIDs, action \in PortActions :
       Enter(Call("ExecutePortAction", siteID, deviceID, NilParams, NilRequest, action),
             ExecutePortAction(siteID, deviceID, action))

CallExecuteDeviceAction ==
  /\ pc = "idle"
  /\ \E siteID \in SiteIDs, deviceID \in RecordIDs, action \in DeviceActions :
       Enter(Call("ExecuteDeviceAction", siteID, deviceID, NilParams, NilRequest, action),
             ExecuteDeviceAction(siteID, deviceID, action))

CallGetDeviceStatistics ==
  /\ pc = "idle"
  /\ \E siteID \in SiteIDs, deviceID \in RecordIDs :
       Enter(Call("GetDeviceStatistics", siteID, deviceID, NilParams, NilRequest, NilAction),
             GetDeviceStatistics(siteID, deviceID))

CallListNetworkClients ==
  /\ pc = "idle"
  /\ \E siteID \in SiteIDs, params \in ClientParams :
       Enter(Call("ListNetworkClients", siteID, EmptyStr, params, NilRequest, NilAction),
             ListNetworkClients(siteID, params))

CallGetNetworkClient ==
  /\ pc = "idle"
  /\ \E siteID \in SiteIDs, clientID \in RecordIDs :
       Enter(Call("GetNetworkClient", siteID, clientID, NilParams, NilRequest, NilAction),
             GetNetworkClient(siteID, clientID))

CallBlockNetworkClient ==
  /\ pc = "idle"
  /\ \E siteID \in SiteIDs, clientID \in RecordIDs :
       Enter(Call("BlockNetworkClient", siteID, clientID, NilParams, NilRequest, NilAction),
             BlockNetworkClient(siteID, clientID))

CallUnblockNetworkClient ==
  /\ pc = "idle"
  /\ \E siteID \in SiteIDs, clientID \in RecordIDs :
       Enter(Call("UnblockNetworkClient", siteID, clientID, NilParams, NilRequest, NilAction),
             UnblockNetworkClient(siteID, clientID))

CallListHotspotVouchers ==
  /\ pc = "idle"
  /\ \E siteID \in SiteIDs, params \in PageParams :
       Enter(Call("ListHotspotVouchers", siteID, EmptyStr, params, NilRequest, NilAction),
             ListHotspotVouchers(siteID, params))

CallCreateHotspotVoucher ==
  /\ pc = "idle"
  /\ \E siteID \in SiteIDs, request \in CreateRequests :
       Enter(Call("CreateHotspotVoucher", siteID, EmptyStr, NilParams, request, NilAction),
             CreateHotspotVoucher(siteID, request))

CallGetHotspotVoucher ==
  /\ pc = "idle"
  /\ \E siteID \in SiteIDs, voucherID \in RecordIDs :
       Enter(Call("GetHotspotVoucher", siteID, voucherID, NilParams, NilRequest, NilAction),
             GetHotspotVoucher(siteID, voucherID))

CallDeleteHotspotVoucher ==
  /\ pc = "idle"
  /\ \E siteID \in SiteIDs, voucherID \in RecordIDs :
       Enter(Call("DeleteHotspotVoucher", siteID, voucherID, NilParams, NilRequest, NilAction),
             DeleteHotspotVoucher(siteID, voucherID))

CallGenerateHotspotVouchers ==
  /\ pc = "idle"
  /\ \E siteID \in SiteIDs, request \in GenerateRequests :
       Enter(Call("GenerateHotspotVouchers", siteID, EmptyStr, NilParams, request, NilAction),
             GenerateHotspotVouchers(siteID, request))

CallGetVoucherDetails ==
  /\ pc = "idle"
  /\ \E siteID \in SiteIDs, voucherID \in RecordIDs :
       Enter(Call("GetVoucherDetails", siteID, voucherID, NilParams, NilRequest, NilAction),
             GetVoucherDetails(siteID, voucherID))

CallGetApplicationInfo ==
  /\ pc = "idle"
  /\ Enter(Call("GetApplicationInfo", EmptyStr, EmptyStr, NilParams, NilRequest, NilAction),
           GetApplicationInfo)

\* httpClient.Do returns: do handles the outcome and the operation returns
RoundTrip ==
  /\ pc = "inflight"
  /\ \E o \in RoundTripOutcomes(ctxDone) :
       LET d == doResponse(o, doArgs.target) IN
       /\ resp' = o
       /\ doRet' = d
       /\ ret' = Resume(call, d)
  /\ pc' = "done"
  /\ UNCHANGED <<call, doArgs, sent, ctxDone>>
  /\ UNCHANGED <<newVars, concVars, codecVars>>

\* the caller cancels the context of the call that is blocked in
\* httpClient.Do
CancelContext ==
  /\ pc = "inflight"
  /\ ~ctxDone
  /\ ctxDone' = TRUE
  /\ UNCHANGED <<pc, call, doArgs, sent, resp, doRet, ret>>
  /\ UNCHANGED <<newVars, concVars, codecVars>>

\* the caller has the result; the client is ready for the next call
Return ==
  /\ pc = "done"
  /\ pc' = "idle"
  /\ call' = NoCall
  /\ doArgs' = NoDo
  /\ sent' = <<>>
  /\ resp' = NoOutcome
  /\ doRet' = NoDoRet
  /\ ret' = NoRet
  /\ ctxDone' = FALSE
  /\ UNCHANGED <<newVars, concVars, codecVars>>

Next ==
  \/ CallListSites
  \/ CallGetSite
  \/ CallListDevices
  \/ CallGetDevice
  \/ CallExecutePortAction
  \/ CallExecuteDeviceAction
  \/ CallGetDeviceStatistics
  \/ CallListNetworkClients
  \/ CallGetNetworkClient
  \/ CallBlockNetworkClient
  \/ CallUnblockNetworkClient
  \/ CallListHotspotVouchers
  \/ CallCreateHotspotVoucher
  \/ CallGetHotspotVoucher
  \/ CallDeleteHotspotVoucher
  \/ CallGenerateHotspotVouchers
  \/ CallGetVoucherDetails
  \/ CallGetApplicationInfo
  \/ RoundTrip
  \/ CancelContext
  \/ Return

Spec == Init /\ [][Next]_vars

(***************************************************************************)
(* The construction of a client, one call of NewClient at a time.          *)
(***************************************************************************)
\* NewClient is called: url.Parse fails and NewClient returns its error, or
\* the path is normalised and the client is built with its defaults
NewClientParse ==
  /\ newPc = "idle"
  /\ \E baseURL \in BaseURLs, options \in SeqsUpTo(Options, MaxOptions) :
       /\ newArgs' = [baseURL |-> baseURL, options |-> options]
       /\ applied' = 0
       /\ IF ~baseURL.parseable
          THEN /\ newPc' = "done"
               /\ client' = NoClient
               /\ newRet' = [kind |-> "error",
                             err |-> ErrorfW("invalid base URL",
                                             << Layer("cause", "parse", 0, EmptyStr, NoBody) >>)]
          ELSE /\ newPc' = "options"
               /\ client' = NewClientDefaults(baseURL.path)
               /\ newRet' = NoNewRet
  /\ UNCHANGED <<callVars, concVars, codecVars>>

\* one turn of the option loop
NewClientApplyOption ==
  /\ newPc = "options"
  /\ applied < Len(newArgs.options)
  /\ client' = ApplyOption(newArgs.options[applied + 1], client)
  /\ applied' = applied + 1
  /\ UNCHANGED <<newPc, newArgs, newRet>>
  /\ UNCHANGED <<callVars, concVars, codecVars>>

\* the option loop is over: NewClient runs to its return
NewClientReturn ==
  /\ newPc = "options"
  /\ applied = Len(newArgs.options)
  /\ client' = NewClientFinish(client).client
  /\ newRet' = NewClientFinish(client).ret
  /\ newPc' = "done"
  /\ UNCHANGED <<newArgs, applied>>
  /\ UNCHANGED <<callVars, concVars, codecVars>>

\* the caller has the result
NewClientDone ==
  /\ newPc = "done"
  /\ newPc' = "idle"
  /\ newArgs' = NoNewArgs
  /\ client' = NoClient
  /\ applied' = 0
  /\ newRet' = NoNewRet
  /\ UNCHANGED <<callVars, concVars, codecVars>>

NextNewClient ==
  \/ NewClientParse
  \/ NewClientApplyOption
  \/ NewClientReturn
  \/ NewClientDone

SpecNewClient == Init /\ [][NextNewClient]_vars

(***************************************************************************)
(* Concurrent calls: NumCallers goroutines inside Client.do on the one     *)
(* client, one step of one caller at a time.                               *)
(***************************************************************************)
\* a caller enters do with the path its operation built and copies the URL
CopyBaseURL ==
  /\ \E p \in Callers :
       /\ callers[p].pc = "idle"
       /\ \E urlPath \in ConcurrentPaths :
            callers' = [callers EXCEPT ![p] =
                          [pc |-> "copied", urlPath |-> urlPath,
                           u |-> doCopyBaseURL(shared), req |-> NoSentRequest]]
  /\ UNCHANGED <<shared, callVars, newVars, codecVars>>

JoinPath ==
  /\ \E p \in Callers :
       /\ callers[p].pc = "copied"
       /\ LET r == doSetPath(shared, callers[p].u, callers[p].urlPath) IN
          /\ shared' = r.client
          /\ callers' = [callers EXCEPT ![p].pc = "joined", ![p].u = r.u]
  /\ UNCHANGED <<callVars, newVars, codecVars>>

SetRawQuery ==
  /\ \E p \in Callers :
       /\ callers[p].pc = "joined"
       /\ LET r == doSetRawQuery(shared, callers[p].u, callers[p].urlPath) IN
          /\ shared' = r.client
          /\ callers' = [callers EXCEPT ![p].pc = "built", ![p].u = r.u]
  /\ UNCHANGED <<callVars, newVars, codecVars>>

\* the request is created from u.String() and handed to c.httpClient
SendRequest ==
  /\ \E p \in Callers :
       /\ callers[p].pc = "built"
       /\ callers' = [callers EXCEPT ![p].pc = "sent",
                                     ![p].req = doBuildAndSend(shared, callers[p].u)]
  /\ UNCHANGED <<shared, callVars, newVars, codecVars>>

\* do returns; the caller's locals are gone
LeaveDo ==
  /\ \E p \in Callers :
       /\ callers[p].pc = "sent"
       /\ callers' = [callers EXCEPT ![p] = IdleCaller]
  /\ UNCHANGED <<shared, callVars, newVars, codecVars>>

NextConcurrent ==
  \/ CopyBaseURL
  \/ JoinPath
  \/ SetRawQuery
  \/ SendRequest
  \/ LeaveDo

SpecConcurrent == Init /\ [][NextConcurrent]_vars

(***************************************************************************)
(* The Device codec: a device object reaches the client either from a mock *)
(* server that marshals a Device, or from a controller, and is decoded.    *)
(***************************************************************************)
\* mockResponse(200, ...): json.Marshal of a Device the test built
MockEncode ==
  /\ codecPc = "idle"
  /\ \E d \in Devices :
       /\ original' = [encoded |-> TRUE, v |-> d]
       /\ wire' = MarshalDevice(d)
  /\ codecPc' = "encoded"
  /\ UNCHANGED <<decoded, callVars, newVars, concVars>>

\* a controller answers with a device object of its own making
ServerEncode ==
  /\ codecPc = "idle"
  /\ \E j \in DeviceJSONs : wire' = j
  /\ original' = NoDevice
  /\ codecPc' = "encoded"
  /\ UNCHANGED <<decoded, callVars, newVars, concVars>>

\* json.Unmarshal(respBody, result) reaches the element of Data
DecodeDevice ==
  /\ codecPc = "encoded"
  /\ \E d \in DecodeTargets : decoded' = UnmarshalJSON(d, wire)
  /\ codecPc' = "decoded"
  /\ UNCHANGED <<original, wire, callVars, newVars, concVars>>

CodecDone ==
  /\ codecPc = "decoded"
  /\ codecPc' = "idle"
  /\ original' = NoDevice
  /\ wire' = NoDeviceJSON
  /\ decoded' = NoDecoded
  /\ UNCHANGED <<callVars, newVars, concVars>>

NextCodec ==
  \/ MockEncode
  \/ ServerEncode
  \/ DecodeDevice
  \/ CodecDone

SpecCodec == Init /\ [][NextCodec]_vars

(***************************************************************************)
(* Properties.                                                             *)
(***************************************************************************)
ListOps == {"ListSites", "ListDevices", "ListNetworkClients", "ListHotspotVouchers"}

GetOps == {"GetSite", "GetDevice", "GetDeviceStatistics", "GetNetworkClient",
           "GetHotspotVoucher", "GetVoucherDetails"}

Started == pc \in {"inflight", "done"}

Answered == pc = "done" /\ resp.kind = "resp"

\* C1: every list operation called with params.Limit > 200 (and the site id
\* it requires) returns the validation error "limit must be between 0 and
\* 200" and hands no request to the transport.
C1_LimitOver200Rejected ==
  (/\ Started
   /\ call.op \in ListOps
   /\ call.op = "ListSites" \/ call.siteID # EmptyStr
   /\ ~call.params.isNil
   /\ call.params.Limit > 200)
  => /\ sent = <<>>
     /\ pc = "done"
     /\ ret.err = Errorf("limit must be between 0 and 200")

ValidationMessages ==
  { "limit must be between 0 and 200", "offset must be non-negative",
    "type must be one of: all, wired, wireless",
    "siteID cannot be empty", "siteId is required", "clientId is required",
    "voucherId is required", "action cannot be nil", "request cannot be nil",
    "name is required", "count must be between 1 and 10000",
    "timeLimitMinutes must be between 1 and 1000000",
    "authorizedGuestLimit must be greater than 0",
    "dataUsageLimitMBytes must be between 1 and 1046576",
    "rxRateLimitKbps must be between 2 and 100000",
    "txRateLimitKbps must be between 2 and 100000" }

IsValidationError(err) ==
  Len(err) = 1 /\ err[1].type = "plain" /\ err[1].msg \in ValidationMessages

\* C2: during one call of any operation at most one request is handed to
\* the transport, whatever came back, and none when the call returns a
\* client-side validation error.
C2_AtMostOneRequest ==
  /\ Len(sent) <= 1
  /\ (pc = "done" /\ IsValidationError(ret.err)) => sent = <<>>

\* C2 witness: a call answered with an error status has handed exactly one
\* request to the transport.
C2_Witness ==
  /\ Answered
  /\ resp.status = 500
  /\ ret.err # NilErr
  /\ Len(sent) = 1

RequestedId(c) == IF c.op = "GetSite" THEN c.siteID ELSE c.id

NotFoundMessages ==
  { "site not found", "device not found", "no statistics found for device",
    "network client not found", "voucher not found" }

\* C3: a by-id get operation whose round trip succeeded returns, for an empty
\* decoded data array, no record and a not-found error carrying the requested
\* id, and for a non-empty one exactly its first element and no error.
C3_GetByIdUnwrapsFirst ==
  (Answered /\ call.op \in GetOps /\ doRet.err = NilErr)
  => IF Len(doRet.result.Data) = 0
     THEN /\ ret.result.isNil
          /\ Len(ret.err) = 1
          /\ ret.err[1].msg \in NotFoundMessages
          /\ ret.err[1].id = RequestedId(call)
     ELSE /\ ret.err = NilErr
          /\ ~ret.result.isNil
          /\ ret.result.rec = doRet.result.Data[1]

\* C3 witness: a get answered with two different records returns the first.
C3_Witness ==
  /\ Answered
  /\ call.op = "GetDevice"
  /\ Len(doRet.result.Data) = 2
  /\ doRet.result.Data[1] # doRet.result.Data[2]
  /\ ret.err = NilErr
  /\ ret.result.rec = [ID |-> "r1"]

\* the rules of voucher generation, in their declared order
RuleViolated(i, r) ==
  CASE i = 1 -> r.isNil
    [] i = 2 -> r.Name = ""
    [] i = 3 -> r.Count < 1 \/ r.Count > 10000
    [] i = 4 -> r.TimeLimitMinutes < 1 \/ r.TimeLimitMinutes > 1000000
    [] i = 5 -> r.AuthorizeGuestLimit < 0
    [] i = 6 -> r.DataUsageLimitMB # 0 /\ (r.DataUsageLimitMB < 1 \/ r.DataUsageLimitMB > 1046576)
    [] i = 7 -> r.RxRateLimitKbps # 0 /\ (r.RxRateLimitKbps < 2 \/ r.RxRateLimitKbps > 100000)
    [] OTHER -> r.TxRateLimitKbps # 0 /\ (r.TxRateLimitKbps < 2 \/ r.TxRateLimitKbps > 100000)

RuleMessage(i) ==
  CASE i = 1 -> "request cannot be nil"
    [] i = 2 -> "name is required"
    [] i = 3 -> "count must be between 1 and 10000"
    [] i = 4 -> "timeLimitMinutes must be between 1 and 1000000"
    [] i = 5 -> "authorizedGuestLimit must be greater than 0"
    [] i = 6 -> "dataUsageLimitMBytes must be between 1 and 1046576"
    [] i = 7 -> "rxRateLimitKbps must be between 2 and 100000"
    [] OTHER -> "txRateLimitKbps must be between 2 and 100000"

Rules == 1..8

ViolatedRules(r) == { i \in Rules : RuleViolated(i, r) }

FirstViolated(r) ==
  CHOOSE i \in ViolatedRules(r) : \A j \in ViolatedRules(r) : i <= j

\* C4: GenerateHotspotVouchers reports exactly the first violated rule of the
\* declared order, also when the request violates several, and "request
\* cannot be nil" for a nil request.
C4_FirstViolatedRuleReported ==
  (Started /\ call.op = "GenerateHotspotVouchers" /\ ViolatedRules(call.request) # {})
  => /\ pc = "done"
     /\ ret.result.isNil
     /\ ret.err = Errorf(RuleMessage(FirstViolated(call.request)))

\* C4 witness: a request with no name, a count of 0 and a bad rate limit is
\* answered with the name rule.
C4_Witness ==
  /\ pc = "done"
  /\ call.op = "GenerateHotspotVouchers"
  /\ Cardinality(ViolatedRules(call.request)) >= 3
  /\ {2, 3} \subseteq ViolatedRules(call.request)
  /\ ret.err = Errorf("name is required")

ValidGenerateRequest(r) ==
  /\ ~r.isNil
  /\ r.Name # ""
  /\ r.Count >= 1 /\ r.Count <= 10000
  /\ r.TimeLimitMinutes >= 1 /\ r.TimeLimitMinutes <= 1000000
  /\ r.AuthorizeGuestLimit >= 0
  /\ r.DataUsageLimitMB = 0 \/ (r.DataUsageLimitMB >= 1 /\ r.DataUsageLimitMB <= 1046576)
  /\ r.RxRateLimitKbps = 0 \/ (r.RxRateLimitKbps >= 2 /\ r.RxRateLimitKbps <= 100000)
  /\ r.TxRateLimitKbps = 0 \/ (r.TxRateLimitKbps >= 2 /\ r.TxRateLimitKbps <= 100000)

\* C5: GenerateHotspotVouchers sends its POST if and only if the request is
\* non-nil and every field is inside its declared range; any other request
\* is rejected with nothing sent.
C5_PostIffRequestValid ==
  (Started /\ call.op = "GenerateHotspotVouchers")
  => IF ValidGenerateRequest(call.request)
     THEN Len(sent) = 1 /\ sent[1].method = "POST" /\ sent[1].body = "object"
     ELSE sent = <<>> /\ pc = "done" /\ ret.err # NilErr

\* C5 witness: a request with every field on the edge of its range is posted.
C5_Witness ==
  /\ pc = "inflight"
  /\ call.op = "GenerateHotspotVouchers"
  /\ call.request.Count = 10000
  /\ call.request.TimeLimitMinutes = 1000000
  /\ call.request.DataUsageLimitMB = 1046576
  /\ call.request.RxRateLimitKbps = 2
  /\ call.request.TxRateLimitKbps = 100000
  /\ Len(sent) = 1

\* C6: CreateHotspotVoucher and GenerateHotspotVouchers called with a nil
\* request return "request cannot be nil" and hand no request to the
\* transport.
C6_NilRequestRejected ==
  (/\ Started
   /\ call.op \in {"CreateHotspotVoucher", "GenerateHotspotVouchers"}
   /\ call.request.isNil)
  => /\ sent = <<>>
     /\ pc = "done"
     /\ ret.err = Errorf("request cannot be nil")

HasTarget == doArgs.target # "none"

\* C7: in do, a status >= 400 always gives an error and leaves the output
\* target alone; a status in [200,400) decodes the body into the output
\* target when there is one, fails when that decode fails, and returns nil
\* without a target whatever the body.
C7_StatusDecidesDecoding ==
  Answered =>
    /\ resp.status >= 400 =>
         /\ doRet.err # NilErr
         /\ ~doRet.unmarshalled
         /\ doRet.result = ZeroResponse
    /\ (resp.status >= 200 /\ resp.status < 400 /\ HasTarget) =>
         /\ doRet.unmarshalled
         /\ doRet.err = NilErr <=> UnmarshalResponse(resp.body, doArgs.target).ok
         /\ doRet.err = NilErr =>
              doRet.result = UnmarshalResponse(resp.body, doArgs.target).v
    /\ (resp.status >= 200 /\ resp.status < 400 /\ ~HasTarget) =>
         /\ doRet.err = NilErr
         /\ ~doRet.unmarshalled

\* C7 witness: a 200 whose body does not decode into the target makes do fail.
C7_Witness ==
  /\ Answered
  /\ resp.status = 200
  /\ HasTarget
  /\ resp.body.kind = "text"
  /\ doRet.unmarshalled
  /\ doRet.err # NilErr

\* what the Error shape reads from a body that decodes into it
BodyAsError(body) ==
  [Status |-> IF body.kind = "object" /\ body.statusCode.t = "num"
              THEN body.statusCode.n ELSE 0,
   Message |-> IF body.kind = "object" /\ body.message.t = "str"
               THEN body.message.s ELSE ""]

FailsWithApiError(body) ==
  /\ ret.err # NilErr
  /\ Len(doRet.err) = 1
  /\ doRet.err[1].type = "Error"
  /\ doRet.err[1].status = BodyAsError(body).Status
  /\ doRet.err[1].msg = BodyAsError(body).Message

\* a body that decodes to the Error shape: a JSON object that json.Unmarshal
\* accepts for an Error and that carries a numeric statusCode
ErrorShaped(body) ==
  /\ body.kind = "object"
  /\ body.statusCode.t = "num"
  /\ UnmarshalError(body).ok

\* C8 as stated: any status outside 200..299, 3xx included, with a body that
\* decodes to the Error shape makes the call fail with the structured error
\* carrying the body's status and message.
C8_Non2xxIsApiError ==
  (/\ Answered
   /\ resp.status < 200 \/ resp.status > 299
   /\ ErrorShaped(resp.body))
  => FailsWithApiError(resp.body)

\* C8 amended: a status >= 400 with a body that decodes to the Error shape
\* makes the call fail with the structured error carrying the body's status
\* and message.
C8_ErrorStatusIsApiError ==
  (/\ Answered
   /\ resp.status >= 400
   /\ ErrorShaped(resp.body))
  => FailsWithApiError(resp.body)

\* C8 witness: a 404 whose body says status 500 fails with an Error of
\* status 500 and the body's message.
C8_Witness ==
  /\ Answered
  /\ resp.status = 404
  /\ resp.body.statusCode = JNum(500)
  /\ resp.body.message = JStr("X not found")
  /\ doRet.err = << Layer("Error", "X not found", 500, EmptyStr, NoBody) >>
  /\ ret.err # NilErr

\* C9: a status >= 400 whose body does not decode into the Error shape (an
\* empty body included) gives a fallback error that carries the HTTP status
\* and the raw body, never a success and never a structured Error.
C9_UndecodableErrorBodyFallsBack ==
  (/\ Answered
   /\ resp.status >= 400
   /\ ~UnmarshalError(resp.body).ok)
  => /\ ret.err # NilErr
     /\ ~ErrorsAs(ret.err)
     /\ \E i \in 1..Len(ret.err) :
          /\ ret.err[i].type = "plain"
          /\ ret.err[i].status = resp.status
          /\ ret.err[i].body = resp.body

\* C9 witness: a 500 with an empty body.
C9_Witness ==
  /\ Answered
  /\ resp.status = 500
  /\ resp.body.kind = "empty"
  /\ ret.err # NilErr
  /\ ~ErrorsAs(ret.err)

\* C10: for every operation, a status >= 400 with a body {statusCode: s,
\* message: m, ...} returns an error in whose chain errors.As finds an Error
\* with Status s and Message m.
C10_ErrorsAsFindsApiError ==
  (/\ Answered
   /\ resp.status >= 400
   /\ resp.body.kind = "object"
   /\ resp.body.statusCode.t = "num"
   /\ resp.body.message.t = "str")
  => /\ ErrorsAs(ret.err)
     /\ ApiErrorOf(ret.err).status = resp.body.statusCode.n
     /\ ApiErrorOf(ret.err).msg = resp.body.message.s

\* C10 witness: ListHotspotVouchers answered 404 "X not found".
C10_Witness ==
  /\ Answered
  /\ call.op = "ListHotspotVouchers"
  /\ resp.status = 404
  /\ resp.body.statusCode = JNum(404)
  /\ resp.body.message = JStr("X not found")
  /\ Len(ret.err) = 2
  /\ ApiErrorOf(ret.err).status = 404

\* C11 as stated: an operation hands the error of do to its caller as the
\* very same value, so that a direct type check of the returned error
\* against *Error succeeds for an API error.
C11_DoErrorReturnedUnchanged ==
  (pc = "done" /\ doRet.err # NilErr)
  => /\ ret.err = doRet.err
     /\ IsApiLayer(doRet.err[1]) => IsApiLayer(ret.err[1])

\* an id of ordinary characters only (the empty id included)
PlainId(id) == \A i \in 1..Len(id) : id[i] \notin {"/", "?", "&", "=", ".", ".."}

\* the query string of a request as the set of its key=value pairs
QueryPairs(q) ==
  IF q = EmptyStr THEN {}
  ELSE LET parts == SplitOn(q, "&") IN
       { << SplitOn(parts[i], "=")[1],
            IF Len(SplitOn(parts[i], "=")) > 1 THEN SplitOn(parts[i], "=")[2] ELSE EmptyStr >> :
           i \in 1..Len(parts) }

QueryPairCount(q) == IF q = EmptyStr THEN 0 ELSE Len(SplitOn(q, "&"))

\* the parameters of a params value that are set, with their values verbatim
SetPairs(params) ==
  IF params.isNil THEN {}
  ELSE (IF params.Limit > 0
        THEN { << <<"limit">>, <<ToString(params.Limit)>> >> } ELSE {})
       \cup (IF params.Offset > 0
             THEN { << <<"offset">>, <<ToString(params.Offset)>> >> } ELSE {})
       \cup (IF params.Type # "" THEN { << <<"type">>, <<params.Type>> >> } ELSE {})
       \cup (IF params.WithinHours > 0
             THEN { << <<"within">>, <<ToString(params.WithinHours)>> >> } ELSE {})

C16_NegativePaginationRejected ==
  (/\ Started
   /\ call.op \in ListOps
   /\ call.op = "ListSites" \/ call.siteID # EmptyStr
   /\ ~call.params.isNil
   /\ call.params.Offset < 0 \/ call.params.Limit < 0)
  => /\ sent = <<>>
     /\ pc = "done"
     /\ IsValidationError(ret.err)

\* C17 as stated: ListDevices, ListNetworkClients and ListHotspotVouchers
\* called with an empty site id fail with a validation error and hand no
\* request to the transport.
C17_ListEmptySiteRejected ==
  (/\ Started
   /\ call.op \in {"ListDevices", "ListNetworkClients", "ListHotspotVouchers"}
   /\ call.siteID = EmptyStr)
  => /\ sent = <<>>
     /\ pc = "done"
     /\ IsValidationError(ret.err)

AllowedClientTypes == {"", "all", "wired", "wireless"}

RequiredIds(c) ==
  IF c.op = "ExecutePortAction" THEN {c.siteID, c.id, c.action.PortID}
  ELSE {c.siteID, c.id}

ActionOps == {"ExecuteDeviceAction", "ExecutePortAction", "BlockNetworkClient",
              "UnblockNetworkClient"}

\* C19 as stated: an action operation called with an empty required id (site
\* id, device id, client id, or the port id of a port action) returns a
\* validation error and sends no POST.
C19_ActionEmptyIdRejected ==
  (/\ Started
   /\ call.op \in ActionOps
   /\ call.op \in {"ExecuteDeviceAction", "ExecutePortAction"} => ~call.action.isNil
   /\ EmptyStr \in RequiredIds(call))
  => /\ sent = <<>>
     /\ pc = "done"
     /\ IsValidationError(ret.err)

\* C20: BlockNetworkClient and UnblockNetworkClient return exactly "siteId is
\* required" for an empty site id (whatever the client id), exactly "clientId
\* is required" for an empty client id with a site id, both with no request
\* sent; with both ids they send one POST and succeed exactly when do
\* returns no error.
C20_BlockChecksSiteThenClient ==
  (Started /\ call.op \in {"BlockNetworkClient", "UnblockNetworkClient"})
  => IF call.siteID = EmptyStr
     THEN sent = <<>> /\ pc = "done" /\ ret.err = Errorf("siteId is required")
     ELSE IF call.id = EmptyStr
     THEN sent = <<>> /\ pc = "done" /\ ret.err = Errorf("clientId is required")
     ELSE /\ Len(sent) = 1
          /\ sent[1].method = "POST"
          /\ pc = "done" => (ret.err = NilErr <=> doRet.err = NilErr)

\* C20 witness: BlockNetworkClient with both ids empty is answered with the
\* site id error.
C20_Witness ==
  /\ pc = "done"
  /\ call.op = "BlockNetworkClient"
  /\ call.siteID = EmptyStr
  /\ call.id = EmptyStr
  /\ sent = <<>>
  /\ ret.err = Errorf("siteId is required")

\* the value the last option of a sequence that sets a field gives it, or
\* the default when none sets it
RECURSIVE LastSet(_, _, _)
LastSet(options, field, default) ==
  IF options = <<>> THEN default
  ELSE IF options[Len(options)].field = field
  THEN (IF field = "insecure" THEN options[Len(options)].flag ELSE options[Len(options)].str)
  ELSE LastSet(SubSeq(options, 1, Len(options) - 1), field, default)

\* C12 as stated: NewClient returns an error and no client if and only if the
\* base URL cannot be parsed or the API key is empty after all the options;
\* in every other case it returns a client and no error; a parse failure is
\* reported before any option is applied.
C12_NewClientFailsIffBadURLOrNoKey ==
  newPc = "done" =>
    LET mustFail == \/ ~newArgs.baseURL.parseable
                    \/ LastSet(newArgs.options, "apiKey", "") = ""
    IN /\ mustFail => newRet.kind = "error" /\ newRet.err # NilErr
       /\ ~mustFail => newRet.kind = "client" /\ newRet.err = NilErr
       /\ ~newArgs.baseURL.parseable =>
            /\ applied = 0
            /\ client = NoClient
            /\ newRet.err[1].msg = "invalid base URL"

\* C13 as stated: every configuration field of the client NewClient returns
\* has the value of the last option that sets it, or its default; the HTTP
\* client of the last WithHTTPClient option is the one requests go through.
C13_LastOptionWins ==
  (newPc = "done" /\ newRet.kind = "client") =>
    /\ client.httpClient = LastSet(newArgs.options, "httpClient", "http.DefaultClient")
    /\ client.apiKey = LastSet(newArgs.options, "apiKey", "")
    /\ client.insecure = LastSet(newArgs.options, "insecure", FALSE)
    /\ client.logger = LastSet(newArgs.options, "logger", "defaultLogger")

\* the segments of a path
Segments(p) == SelectSeq(SplitOn(p, "/"), LAMBDA seg : seg # EmptyStr)

PrefixSegments == << <<"proxy">>, <<"network">>, <<"integration">> >>

\* where the three prefix segments occur in a row
PrefixOccurrences(p) ==
  { i \in 1..(Len(Segments(p)) - 2) : SubSeq(Segments(p), i, i + 2) = PrefixSegments }

\* C14 as stated: for every parseable base URL the path of the client's base
\* URL starts with the segments proxy/network/integration and holds that
\* three-segment prefix exactly once.
C14_PrefixExactlyOnce ==
  (newPc \in {"options", "done"} /\ newArgs.baseURL.parseable) =>
    /\ PrefixOccurrences(client.baseURL) = {1}
    /\ Head(client.baseURL) = "/"

ValueOps == ListOps \cup GetOps
               \cup {"CreateHotspotVoucher", "GenerateHotspotVouchers", "GetApplicationInfo"}

\* the segments of a request path in front of its first "sites" or "info"
\* segment
ApiRoot(p) ==
  LET segs == Segments(p)
      at == CHOOSE i \in 1..Len(segs) :
              /\ segs[i] \in { <<"sites">>, <<"info">> }
              /\ \A j \in 1..(i - 1) : segs[j] \notin { <<"sites">>, <<"info">> }
  IN SubSeq(segs, 1, at - 1)

HasApiRoot(p) ==
  \E i \in 1..Len(Segments(p)) : Segments(p)[i] \in { <<"sites">>, <<"info">> }

\* C23 as stated: every resource operation builds its path under one and the
\* same versioned API root: the segments in front of /sites (and /info) are
\* those of the site operations, whatever the operation.
C23_OneApiRoot ==
  (/\ Started
   /\ sent # <<>>
   /\ PlainId(call.siteID) /\ PlainId(call.id)
   /\ HasApiRoot(sent[1].path))
  => ApiRoot(sent[1].path) = ApiRoot(doRequest(ListSites(NilParams).do).path)

\* C26: an operation that returns a value and an error returns exactly one
\* of them: its result is non-nil if and only if its error is nil, whatever
\* the inputs, the transport outcome, the status and the body.
C26_ResultXorError ==
  (pc = "done" /\ call.op \in ValueOps)
  => (~ret.result.isNil <=> ret.err = NilErr)

\* C26 witness: a by-id get answered 200 with the body null returns no record
\* and the not-found error.
C26_Witness ==
  /\ Answered
  /\ call.op = "GetDevice"
  /\ resp.status = 200
  /\ resp.body.kind = "null"
  /\ doRet.err = NilErr
  /\ ret.result.isNil
  /\ ret.err # NilErr

\* the operations that take a site id, and those that take a record id too
SiteScopedOps ==
  { "GetSite", "ListDevices", "GetDevice", "ExecutePortAction", "ExecuteDeviceAction",
    "GetDeviceStatistics", "ListNetworkClients", "GetNetworkClient", "BlockNetworkClient",
    "UnblockNetworkClient", "ListHotspotVouchers", "CreateHotspotVoucher",
    "GetHotspotVoucher", "DeleteHotspotVoucher", "GenerateHotspotVouchers",
    "GetVoucherDetails" }

RecordOps ==
  { "GetDevice", "ExecutePortAction", "ExecuteDeviceAction", "GetDeviceStatistics",
    "GetNetworkClient", "BlockNetworkClient", "UnblockNetworkClient",
    "GetHotspotVoucher", "DeleteHotspotVoucher", "GetVoucherDetails" }

\* segs holds the segment "sites" followed by the whole of id as one segment
UnderSite(segs, id) ==
  \E i \in 1..(Len(segs) - 1) : segs[i] = <<"sites">> /\ segs[i + 1] = id

\* C27 as stated: whatever non-empty site id and record id the caller gives,
\* the path of the request stays under /proxy/network/integration, names the
\* resource under /sites/{siteId}/ with each id as one segment of its own,
\* and the query string holds only the parameters built from params.
C27_IdsCannotRedirect ==
  (/\ Started
   /\ sent # <<>>
   /\ call.op \in SiteScopedOps
   /\ call.siteID # EmptyStr
   /\ call.op \in RecordOps => call.id # EmptyStr)
  => LET segs == Segments(sent[1].path) IN
     /\ Len(segs) >= 3 /\ SubSeq(segs, 1, 3) = PrefixSegments
     /\ UnderSite(segs, call.siteID)
     /\ call.op \in RecordOps => \E i \in 1..Len(segs) : segs[i] = call.id
     /\ QueryPairs(sent[1].query) = SetPairs(call.params)

ByIdOps == { "GetDevice", "GetDeviceStatistics", "GetHotspotVoucher",
             "DeleteHotspotVoucher", "ExecuteDeviceAction", "ExecutePortAction" }

\* C28 as stated: a get, delete or action call on one record never reaches
\* the transport with an empty record id: the request has the id as a
\* non-empty segment of its path.
C28_ByIdNeverOnCollection ==
  (/\ Started
   /\ sent # <<>>
   /\ call.op \in ByIdOps
   /\ PlainId(call.siteID) /\ PlainId(call.id))
  => /\ call.id # EmptyStr
     /\ \E i \in 1..Len(Segments(sent[1].path)) : Segments(sent[1].path)[i] = call.id

\* C29 as stated: GetHotspotVoucher and GetVoucherDetails are equivalent: for
\* the same site id and voucher id they send the same request or both none,
\* and on the same answer they return the same voucher or both fail.
C29_VoucherGetsEquivalent ==
  (Started /\ call.op = "GetHotspotVoucher")
  => LET other == GetVoucherDetails(call.siteID, call.id) IN
     /\ other.err = NilErr <=> sent # <<>>
     /\ sent # <<>> => sent[1] = doRequest(other.do)
     /\ (pc = "done" /\ sent # <<>> /\ other.err = NilErr) =>
          LET r == GetVoucherDetailsReturn(call.id, doResponse(resp, other.do.target)) IN
          /\ r.result = ret.result
          /\ r.err = NilErr <=> ret.err = NilErr

\* C30 as stated: an operation that fails with the structured Error carries
\* in its Status the HTTP status of the response, which is >= 400, whatever
\* JSON body came with that status.
C30_ErrorStatusIsHttpStatus ==
  (Answered /\ ErrorsAs(ret.err))
  => /\ ApiErrorOf(ret.err).status = resp.status
     /\ ApiErrorOf(ret.err).status >= 400

C21_NoCallMutatesClient ==
  /\ shared = SharedClient
  /\ \A p \in Callers :
       callers[p].pc = "sent" =>
         LET r == doRequest(DoArgs("GET", callers[p].urlPath, "nil", "none")) IN
         /\ callers[p].req.path = r.path
         /\ callers[p].req.query = r.query
         /\ callers[p].req.apiKey = SharedClient.apiKey
         /\ callers[p].req.httpClient = SharedClient.httpClient

\* one caller has sent a request with a query while the other, on another
\* path, is between its two writes
C21_Witness ==
  /\ callers[1].pc = "sent"
  /\ callers[1].req.query # EmptyStr
  /\ callers[2].pc = "joined"
  /\ callers[2].urlPath # callers[1].urlPath
  /\ callers[2].u.Path # callers[1].req.path

WireFeatures == IF wire.features.t = "array" THEN wire.features.elems ELSE <<>>

C25_RoundTrip ==
  (codecPc = "decoded" /\ original.encoded)
  => /\ decoded.ok
     /\ decoded.v = original.v

====
